---- MODULE Spec2Model ----
(***************************************************************************)
(* PolyPress 3D viewer: the session state machine of App (file selection,  *)
(* reset, export) and of ModelManager (the load effect, processResult, the *)
(* exporter), and the pure text functions they use.                        *)
(*                                                                         *)
(* Strings of the program are sequences of one-character strings, so that  *)
(* split, replace, toLowerCase and toUpperCase are computed, not assumed.  *)
(* An optional value (T | null) is a sequence of length 0 or 1.            *)
(***************************************************************************)
EXTENDS Integers, Sequences, FiniteSets, TLC

\* ---------------------------------------------------------------- bounds

\* Number of file selections and confirmed exports (handleFileUpload and
\* handleExport calls, together) in one run.
MaxOps == 2
\* Number of interval ticks in which the cosmetic progress bar fills
\* (the program: duration / intervalTime ticks).
TicksToFull == 1
\* Length of the file names the pure naming functions are checked on.
MaxNameLen == 5
\* Number of mesh/point nodes under the root of a parsed scene the extraction
\* is checked on.
MaxNodes == 3
\* Number of changes the user makes in the scene controls in one run.
MaxSettings == 1
\* Number of changes of the activeAnimationIndex prop, and the largest index
\* given, when the animation effect is followed on its own.
MaxSwitches == 5
MaxTrackIndex == 2
\* Number of Frame View clicks in one run.
MaxFrames == 1

\* ------------------------------------------------------------------ text

None == <<>>
Some(x) == <<x>>

LowerLetters ==
  <<"a","b","c","d","e","f","g","h","i","j","k","l","m",
    "n","o","p","q","r","s","t","u","v","w","x","y","z">>
UpperLetters ==
  <<"A","B","C","D","E","F","G","H","I","J","K","L","M",
    "N","O","P","Q","R","S","T","U","V","W","X","Y","Z">>

LowerChar(c) ==
  IF \E i \in 1..26 : UpperLetters[i] = c
    THEN LowerLetters[CHOOSE i \in 1..26 : UpperLetters[i] = c]
    ELSE c
UpperChar(c) ==
  IF \E i \in 1..26 : LowerLetters[i] = c
    THEN UpperLetters[CHOOSE i \in 1..26 : LowerLetters[i] = c]
    ELSE c

\* String.prototype.toLowerCase / toUpperCase
toLowerCase(s) == [i \in 1..Len(s) |-> LowerChar(s[i])]
toUpperCase(s) == [i \in 1..Len(s) |-> UpperChar(s[i])]

\* Index of the last "." of s, 0 when s holds none.
LastDot(s) ==
  IF \E i \in 1..Len(s) : s[i] = "."
    THEN CHOOSE i \in 1..Len(s) :
           s[i] = "." /\ \A k \in (i+1)..Len(s) : s[k] # "."
    ELSE 0

\* name.split('.').pop(): the part after the last ".", the whole name when it
\* holds no ".".
SplitPop(name) == SubSeq(name, LastDot(name) + 1, Len(name))

\* handleFileUpload: file.name.split('.').pop()?.toLowerCase() || ''
FileExt(name) == toLowerCase(SplitPop(name))

\* The regular expression /\.[^/.]+$/ : the start of its match in s, 0 when it
\* does not match. The engine tries the start positions from the left; a match
\* at i is a "." followed by one or more characters, none of them "/" or ".",
\* up to the end of s.
ExtMatchAt(s, i) ==
  /\ s[i] = "."
  /\ i < Len(s)
  /\ \A k \in (i+1)..Len(s) : s[k] \notin {"/", "."}
ExtMatchStart(s) ==
  IF \E i \in 1..Len(s) : ExtMatchAt(s, i)
    THEN CHOOSE i \in 1..Len(s) :
           ExtMatchAt(s, i) /\ \A k \in 1..(i-1) : ~ExtMatchAt(s, k)
    ELSE 0

\* A variant that cuts at the first "." (the pattern /\..+$/).
StripFromFirstDot(s) ==
  IF \E i \in 1..Len(s) : s[i] = "." /\ i < Len(s)
    THEN SubSeq(s, 1,
           (CHOOSE i \in 1..Len(s) :
              s[i] = "." /\ i < Len(s)
              /\ \A k \in 1..(i-1) : ~(s[k] = "." /\ k < Len(s))) - 1)
    ELSE s

\* config.fileName.replace(/\.[^/.]+$/, "")
StripExtension(s) ==
  IF ExtMatchStart(s) = 0 THEN s ELSE SubSeq(s, 1, ExtMatchStart(s) - 1)

DracoSuffix == <<"_","d","r","a","c","o">>
Ktx2Suffix == <<"_","k","t","x","2">>
OptimizedSuffix == <<"_","o","p","t","i","m","i","z","e","d">>
GlbExt == <<".","g","l","b">>

\* exportModel, onDone: suffix accumulation
ExportSuffix(draco, ktx2) ==
  LET s1 == IF draco THEN DracoSuffix ELSE <<>>
      s2 == IF ktx2 THEN s1 \o Ktx2Suffix ELSE s1
  IN IF s2 = <<>> THEN OptimizedSuffix ELSE s2

\* exportModel, onDone: link.download
ExportName(fileName, draco, ktx2) ==
  StripExtension(fileName) \o ExportSuffix(draco, ktx2) \o GlbExt

\* ---------------------------------------------------------------- assets

\* The files the user can select: name, byte size, and what the format's
\* parser returns for the content (nodes: the node list of the parsed root,
\* root first; animations: clip names; geo: the centre of the bounding box in
\* the root's frame; box: the extents of the bounding box).
\*   a.GLB  an animated, rigged interchange asset: two meshes sharing one
\*          material, one bone, two clips
\*   b.ply  a geometry without index buffer
\*   c.stl  an extension outside the table
\*   d.     a name whose part after the last "." is empty
Node(kind, pos, index, mat, map) ==
  [kind |-> kind, pos |-> pos, index |-> index, mat |-> mat, map |-> map]

GlbFile ==
  [name |-> <<"a", ".", "G", "L", "B">>, size |-> 30,
   nodes |-> <<Node("Group", -1, -1, 0, 0), Node("Mesh", 6, -1, 1, 1),
               Node("Mesh", 4, -1, 1, 1), Node("Bone", -1, -1, 0, 0)>>,
   animations |-> <<"Walk", "">>, geo |-> 1, box |-> <<2, 4, 1>>]
PlyFile ==
  [name |-> <<"b", ".", "p", "l", "y">>, size |-> 20,
   nodes |-> <<Node("Geometry", 5, -1, 0, 0)>>,
   animations |-> <<>>, geo |-> 2, box |-> <<3, 3, 3>>]
StlFile ==
  [name |-> <<"c", ".", "s", "t", "l">>, size |-> 10,
   nodes |-> <<Node("Geometry", 3, 3, 0, 0)>>,
   animations |-> <<>>, geo |-> 0, box |-> <<1, 1, 1>>]
DotFile ==
  [name |-> <<"d", ".">>, size |-> 5,
   nodes |-> <<Node("Geometry", 3, 3, 0, 0)>>,
   animations |-> <<>>, geo |-> 0, box |-> <<1, 1, 1>>]

Files == {GlbFile, PlyFile, StlFile, DotFile}

\*   e.gltf an animated interchange asset with one mesh, one point set and
\*          one clip
GltfFile ==
  [name |-> <<"e", ".", "g", "l", "t", "f">>, size |-> 40,
   nodes |-> <<Node("Group", -1, -1, 0, 0), Node("Mesh", 3, -1, 2, 0),
               Node("Points", 5, -1, 3, 0)>>,
   animations |-> <<"Idle">>, geo |-> 0, box |-> <<1, 2, 1>>]
\* The files selected where the scene controls are followed.
SceneFiles == {GlbFile, GltfFile, PlyFile}

Glb == <<"g","l","b">>
Gltf == <<"g","l","t","f">>
Obj == <<"o","b","j">>
Ply == <<"p","l","y">>
Pcd == <<"p","c","d">>
Xyz == <<"x","y","z">>
\* types.ts: SupportedExtension
SupportedExtension == {Glb, Gltf, Obj, Ply, Pcd, Xyz}

\* -------------------------------------------------------------- messages

FetchingStatus == <<"Fetching data stream...">>
DecodingStatus(ext) == <<"Decoding ">> \o toUpperCase(ext) \o <<" payloads...">>
\* handleError: `Error: ${err.message || 'Parsing failed'}`
ErrorStatus(message) ==
  <<"Error: ">> \o (IF message = <<>> THEN <<"Parsing failed">> ELSE message)
\* new Error(`Unsupported format: ${ext}`)
UnsupportedMessage(ext) == <<"Unsupported format: ">> \o ext
\* The messages of the environment's failures: a rejected fetch, a parser that
\* throws.
FetchMessage == <<"Failed to fetch">>
ParseMessage == <<"Unexpected end of data">>

\* ----------------------------------------------------------- scene graph

\* Scene-graph nodes are named <<tag, owner, k>>: node k of the object built by
\* load `owner` ("obj"), or of the clone made by export `owner` ("clone").
NoObject == <<"none", 0, 0>>
Group == <<"group", 0, 0>>
ExportSceneOf(j) == <<"exportScene", j, 0>>
ObjId(i, k) == <<"obj", i, k>>
CloneId(j, k) == <<"clone", j, k>>

\* The nodes of the object rooted at m: m and its children.
ObjNodes(g, m) == {n \in DOMAIN g : n = m \/ g[n].parent = m}
Children(g, m) == {n \in DOMAIN g : g[n].parent = m}

\* A variant of Render that attaches the new object and leaves the object
\* rendered before where it is.
RenderKeepOld(g, old, new) ==
  [n \in DOMAIN g |->
     IF n = new /\ new # NoObject THEN [g[n] EXCEPT !.parent = Group]
     ELSE g[n]]

\* <primitive object={model} />: the renderer detaches the object that is no
\* longer rendered and attaches the new one under the viewer's group.
Render(g, old, new) ==
  [n \in DOMAIN g |->
     IF n = new /\ new # NoObject THEN [g[n] EXCEPT !.parent = Group]
     ELSE IF n = old /\ old # new THEN [g[n] EXCEPT !.parent = NoObject]
     ELSE g[n]]

\* ----------------------------------------- processResult: the pure parts

IsInterchange(ext) == ext = Glb \/ ext = Gltf

\* Material identities made by the program: one per `new ...Material(...)`
\* call, distinct from the parser's (small numbers) and from each other.
NormalizerMaterial(k) == 100 + k
ReplacedMaterial(k) == 200 + k

\* A variant of BuildObject that takes a ply geometry for a point cloud only
\* when it has no index buffer at all (!geometry.index).
BuildObjectMissingIndexOnly(ext, nodes) ==
  IF IsInterchange(ext) \/ ext = Obj THEN nodes
  ELSE IF ext = Pcd THEN
    [k \in 1..Len(nodes) |->
       IF k = 1 /\ nodes[k].mat # 0
         THEN [nodes[k] EXCEPT !.mat = NormalizerMaterial(k), !.map = 0]
         ELSE nodes[k]]
  ELSE IF ext = Xyz \/ ext = Ply THEN
    LET geometry == nodes[1]
        isPointCloud == ext = Xyz \/ (ext = Ply /\ geometry.index = -1)
    IN <<Node(IF isPointCloud THEN "Points" ELSE "Mesh", geometry.pos,
              geometry.index, NormalizerMaterial(1), 0)>>
  ELSE <<Node("Mesh", nodes[1].pos, nodes[1].index, NormalizerMaterial(1), 0)>>

\* processResult, the branch on ext: the object built from the parser's
\* result, as its node list (root first).
BuildObject(ext, nodes) ==
  IF IsInterchange(ext) \/ ext = Obj THEN nodes
  ELSE IF ext = Pcd THEN
    [k \in 1..Len(nodes) |->
       IF k = 1 /\ nodes[k].mat # 0
         THEN [nodes[k] EXCEPT !.mat = NormalizerMaterial(k), !.map = 0]
         ELSE nodes[k]]
  ELSE IF ext = Xyz \/ ext = Ply THEN
    LET geometry == nodes[1]
        isPointCloud ==
          ext = Xyz \/ (ext = Ply /\ (geometry.index = -1 \/ geometry.index = 0))
    IN <<Node(IF isPointCloud THEN "Points" ELSE "Mesh", geometry.pos,
              geometry.index, NormalizerMaterial(1), 0)>>
  ELSE <<Node("Mesh", nodes[1].pos, nodes[1].index, NormalizerMaterial(1), 0)>>

IsMeshLike(n) == n.kind = "Mesh" \/ n.kind = "Points"

\* processResult, the traversal: the material a node carries when it is
\* counted (mesh materials of the non-interchange formats are replaced first).
CountedMaterial(ext, object, k) ==
  IF ~IsInterchange(ext) /\ object[k].kind = "Mesh" /\ object[k].mat # 0
    THEN ReplacedMaterial(k)
    ELSE object[k].mat

RECURSIVE SumPositions(_, _, _)
\* The sum of position.count over the first k nodes that are mesh-like and of
\* one of `kinds`.
SumPositions(object, kinds, k) ==
  IF k = 0 THEN 0
  ELSE SumPositions(object, kinds, k - 1)
       + (IF IsMeshLike(object[k]) /\ object[k].kind \in kinds /\ object[k].pos >= 0
            THEN object[k].pos ELSE 0)

\* A variant of RoundThird that takes the position count itself.
NoThird(x) == x

\* Math.round(x / 3) for x >= 0
RoundThird(x) == (2 * x + 3) \div 6

\* c.name || `Animation ${modelAnimations.indexOf(c) + 1}`
AnimationNames(animations) ==
  LET Digits == <<"1", "2", "3", "4", "5", "6", "7", "8", "9">>
  IN [i \in 1..Len(animations) |->
        IF animations[i] # "" THEN <<animations[i]>>
        ELSE <<"Animation ", Digits[i]>>]

\* processResult, the argument of onModelMetadata
ExtractMetadata(ext, object, animations) ==
  LET counted == {k \in 1..Len(object) : IsMeshLike(object[k])}
      withMat == {k \in counted : object[k].mat # 0}
  IN [vertices |-> SumPositions(object, {"Mesh", "Points"}, Len(object)),
      triangles |-> RoundThird(SumPositions(object, {"Mesh"}, Len(object))),
      meshes |-> Cardinality(counted),
      materials |-> Cardinality({CountedMaterial(ext, object, k) : k \in withMat}),
      textures |-> Cardinality({object[k].map : k \in withMat} \ {0}),
      animations |-> AnimationNames(animations)]

\* processResult, the traversal: what it leaves of the object. Every mesh of
\* a non-interchange format that has a material gets a new
\* MeshStandardMaterial (which keeps the old one's map); `run` tells the
\* identities made by one run of the traversal from those of another.
TraversedObject(ext, object, run) ==
  [k \in 1..Len(object) |->
     IF ~IsInterchange(ext) /\ object[k].kind = "Mesh" /\ object[k].mat # 0
       THEN [object[k] EXCEPT !.mat = ReplacedMaterial(k) + 100 * (run - 1)]
       ELSE object[k]]

\* What the parsers return, for the extraction on its own: position counts,
\* the materials of the parser (material 1 carries a texture, material 2
\* none), and the index buffer of a geometry (-1: none, 0: empty).
PositionCounts == {5, 1000, 3000}
ParserMaterials == {1, 2}
TextureOf(mat) == IF mat = 1 THEN 1 ELSE 0
SceneNodes ==
  {Node("Mesh", pos, -1, mat, TextureOf(mat)) :
     pos \in PositionCounts, mat \in ParserMaterials}
  \cup {Node("Points", pos, -1, mat, TextureOf(mat)) :
          pos \in {5}, mat \in ParserMaterials}
RECURSIVE NodeListsOfLen(_)
NodeListsOfLen(n) ==
  IF n = 0 THEN {<<>>}
  ELSE {Append(s, c) : s \in NodeListsOfLen(n - 1), c \in SceneNodes}
\* GLTFLoader (result.scene) and OBJLoader: a group with mesh/point children.
\* PCDLoader: a Points object, with or without a material. PLYLoader and
\* XYZLoader: a geometry, its index buffer missing, empty or not.
ParserResults(ext) ==
  IF IsInterchange(ext) \/ ext = Obj
    THEN {<<Node("Group", -1, -1, 0, 0)>> \o s :
            s \in UNION {NodeListsOfLen(n) : n \in 1..MaxNodes}}
  ELSE IF ext = Pcd
    THEN {<<Node("Points", pos, -1, mat, 0)>> :
            pos \in PositionCounts, mat \in {0, 1}}
  ELSE {<<Node("Geometry", pos, index, 0, 0)>> :
          pos \in PositionCounts, index \in {-1, 0, 3}}

\* handleFileUpload: the metadata shown while the file loads
InitialMetadata(file) ==
  [name |-> file.name, size |-> file.size,
   format |-> toUpperCase(FileExt(file.name)),
   vertices |-> 0, triangles |-> 0, meshes |-> 0, materials |-> 0,
   textures |-> 0, animations |-> <<>>]

\* A variant of ResetIndex that keeps the index.
KeepIndex(st) == st

\* handleMetadataLoaded: setSceneSettings(s => ({ ...s, activeAnimationIndex: 0 }))
ResetIndex(st) == [st EXCEPT !.activeAnimationIndex = 0]

\* handleMetadataLoaded: prev ? { ...prev, ...details } : null
MergeMetadata(prev, details) ==
  IF prev = None THEN None
  ELSE Some([prev[1] EXCEPT !.vertices = details.vertices,
                            !.triangles = details.triangles,
                            !.meshes = details.meshes,
                            !.materials = details.materials,
                            !.textures = details.textures,
                            !.animations = details.animations])

\* ----------------------------------------------------------------- state

\* ------------------------------------------------------------- frameCamera

\* Lengths are in thousandths of a unit, angles in ten-thousandths of a
\* radian, the aspect ratio in hundredths.
Pi == 31416

Max(a, b) == IF a > b THEN a ELSE b

\* Math.atan of an angle below one radian, by its series.
Atan(x) ==
  LET cube == (((x * x) \div 10000) * x) \div 10000
      fifth == (((cube * x) \div 10000) * x) \div 10000
      seventh == (((fifth * x) \div 10000) * x) \div 10000
  IN x - cube \div 3 + fifth \div 5 - seventh \div 7

\* new THREE.Box3().setFromObject(object): the centre and the largest extent.
Box(g, ls, object) ==
  LET size == ls[object[2]].file.box
  IN [center |-> (g[object].pos + g[object].geo) * 1000,
      maxSize |-> Max(size[1], Max(size[2], size[3])) * 1000]

\* frameCamera(object): the camera is put at the computed distance from the
\* box centre, on the side it is on (normalize leaves the zero vector zero),
\* near and far follow the distance, and the orbit target is the centre
\* (the orbit controls are the default controls by the time a file can be
\* selected).
FrameCamera(cam, g, ls, object) ==
  LET center == Box(g, ls, object).center
      maxSize == Box(g, ls, object).maxSize
      fov == IF cam.fov = 0 THEN 45 ELSE cam.fov
      fitHeightDistance == (maxSize * 10000) \div (2 * Atan((Pi * fov) \div 360))
      fitWidthDistance ==
        (fitHeightDistance * 100) \div (IF cam.aspect = 0 THEN 100 ELSE cam.aspect)
      distance == (12 * Max(fitHeightDistance, fitWidthDistance)) \div 10
      offset == cam.position - center
      direction == IF offset > 0 THEN 1 ELSE IF offset < 0 THEN 0 - 1 ELSE 0
  IN [camera |-> [cam EXCEPT !.position = direction * distance + center,
                             !.near = distance \div 1000,
                             !.far = distance * 1000],
      target |-> center]

VARIABLES
  \* App (useState)
  appState,        \* AppState
  loadingStatus,   \* the string last given to onLoadingStatus
  exportProgress,  \* 0..100
  modelUrl,        \* 0 (null) or the number of the load whose blob URL it is
  extension,       \* None (null) or Some(ext)
  metadata,        \* None (null) or Some(ModelMetadata)
  exportSettings,  \* [draco, ktx2]
  sceneSettings,   \* SceneSettings (autoRotate, read by the orbit controls
                   \* only, is left out)
  changes,         \* the number of changes made to sceneSettings from outside
  \* ModelManager (useState / useRef)
  model,           \* the installed object's root, NoObject for null
  mixer,           \* None or Some([root, actions]): actions = the actions made
                   \* by clipAction, clip number -> [running, time, fade]
  clips,           \* clips.current: [of: the load that returned it, names]
  activeAction,    \* None or Some([root, clip])
  graph,           \* scene graph: node -> [parent, pos, geo]
  materialFlags,   \* the installed object's root -> the flags of the
                   \* materials of its nodes (an object that was replaced or
                   \* ejected is out of the program's reach)
  skeletonHelper,  \* skeletonHelper.current: None or Some([of, attached])
  \* the asynchronous work in flight
  loads,           \* one record per handleFileUpload call
  cleanupOf,       \* the load whose effect cleanup is registered, 0 for none
  exports,         \* one record per handleExport call
  downloads,       \* the file names given to link.download, in order
  \* the default camera and the orbit controls (lengths in thousandths)
  camera,          \* [position, near, far, fov, aspect]: position is the
                   \* coordinate on the line through the origin and the
                   \* camera, on which the assets' boxes are centred
  target,          \* controls.target
  timers,          \* the objects of the pending setTimeout(frameCamera) calls,
                   \* in the order they were armed
  framed,          \* the objects frameCamera was called on, in order
  frameCalls,      \* the number of Frame View clicks
  \* inputs and result of the pure naming functions
  pfName, pfDraco, pfKtx2, pfOut,
  \* input and results of the extraction on its own
  px,
  \* input and result of the dispatch on the file name on its own
  pd

settingsVars == <<sceneSettings, changes>>
lookVars == <<materialFlags, skeletonHelper>>
appVars ==
  <<appState, loadingStatus, exportProgress, modelUrl, extension, metadata,
    exportSettings, settingsVars>>
viewerVars == <<model, mixer, clips, activeAction, graph, lookVars>>
asyncVars == <<loads, cleanupOf, exports, downloads>>
frameVars == <<camera, target, timers, framed, frameCalls>>
sessionVars == <<appVars, viewerVars, asyncVars, frameVars>>
pureVars == <<pfName, pfDraco, pfKtx2, pfOut, px, pd>>
vars == <<sessionVars, pureVars>>

\* The state after the first render: App's useState initial values, the
\* ModelManager's refs, and the load effect's first run (modelUrl is null:
\* setModel(null), no cleanup registered).
SessionInit ==
  /\ appState = "IDLE"
  /\ loadingStatus = <<>>
  /\ exportProgress = 0
  /\ modelUrl = 0
  /\ extension = None
  /\ metadata = None
  /\ exportSettings = [draco |-> FALSE, ktx2 |-> FALSE]
  /\ sceneSettings = [wireframe |-> FALSE, showSkeleton |-> FALSE,
                      playAnimation |-> TRUE, activeAnimationIndex |-> 0,
                      pointSize |-> 5]
  /\ changes = 0
  /\ materialFlags = <<>>
  /\ skeletonHelper = None
  /\ model = NoObject
  /\ mixer = None
  /\ clips = [of |-> 0, names |-> <<>>]
  /\ activeAction = None
  /\ graph = <<>>
  /\ loads = <<>>
  /\ cleanupOf = 0
  /\ exports = <<>>
  /\ downloads = <<>>
  \* <Canvas camera={{ position: [5, 5, 5], fov: 45 }}>: |(5, 5, 5)| = 8.660
  /\ camera = [position |-> 8660, near |-> 100, far |-> 1000000,
               fov |-> 45, aspect |-> 0]
  /\ target = 0
  /\ timers = <<>>
  /\ framed = <<>>
  /\ frameCalls = 0

\* The extraction on its own: the parser's result (ext, nodes, animations),
\* the object built from it, the object as it was before the first traversal,
\* and what the first and the second traversal reported.
Px(stage, ext, nodes, animations, object, before, first, second) ==
  [stage |-> stage, ext |-> ext, nodes |-> nodes, animations |-> animations,
   object |-> object, before |-> before, first |-> first, second |-> second]
PxIdle == Px("idle", <<>>, <<>>, <<>>, <<>>, <<>>, None, None)

\* The dispatch on its own: the file name, the extension handleFileUpload
\* takes from it, and the branch the load effect takes for that extension.
Pd(stage, name, ext, branch) ==
  [stage |-> stage, name |-> name, ext |-> ext, branch |-> branch]
PdIdle == Pd("idle", <<>>, <<>>, "")

PureIdle ==
  /\ pfName = <<>>
  /\ pfDraco = FALSE
  /\ pfKtx2 = FALSE
  /\ pfOut = None
  /\ px = PxIdle
  /\ pd = PdIdle

Init == SessionInit /\ PureIdle

\* ------------------------------------------------------ animation runtime

\* An AnimationAction: whether it is scheduled in the mixer, its local time
\* (0, or 1 once a frame has advanced it) and the weight fade in progress.
FadeDuration == "0.3"
NoFade == [dir |-> "none", over |-> "0"]
NewAction == [running |-> FALSE, time |-> 0, fade |-> NoFade]
\* mixer.clipAction(clip): the action of the clip, made on first use
ClipAction(actions, c) == IF c \in DOMAIN actions THEN actions[c] ELSE NewAction
\* action.play(), action.reset(), action.fadeIn(d), action.fadeOut(d),
\* action.stop()
Play(a) == [a EXCEPT !.running = TRUE]
ResetAction(a) == [a EXCEPT !.time = 0, !.fade = NoFade]
FadeIn(a, d) == [a EXCEPT !.fade = [dir |-> "in", over |-> d]]
FadeOut(a, d) == [a EXCEPT !.fade = [dir |-> "out", over |-> d]]
StopAction(a) == ResetAction([a EXCEPT !.running = FALSE])

\* mixer.stopAllAction()
StopAllAction(mx) ==
  IF mx = None THEN None
  ELSE Some([mx[1] EXCEPT
               !.actions = [c \in DOMAIN mx[1].actions |->
                              StopAction(mx[1].actions[c])]])

\* A variant of NextClip that always takes the first clip.
FirstClip(names, index) == 1

\* The clip the animation effect switches to: clips.current[index], or
\* clips.current[0] when there is none (clips are numbered from 1 here).
NextClip(names, index) ==
  IF index + 1 \in 1..Len(names) THEN index + 1 ELSE 1

\* A variant that takes an index with no clip for the first clip only after
\* looking: there is no clip to switch to, and the effect does nothing.
AnimationEffectInRangeOnly(mx, act, names, index) ==
  IF mx = None \/ Len(names) = 0 \/ index + 1 \notin 1..Len(names)
    THEN [mixer |-> mx, activeAction |-> act]
  ELSE
    LET a0 == mx[1].actions
        a1 == IF act # None /\ act[1].clip \in DOMAIN a0
                THEN [a0 EXCEPT ![act[1].clip] = FadeOut(@, FadeDuration)]
                ELSE a0
        next == index + 1
        a2 == (next :> Play(FadeIn(ResetAction(ClipAction(a1, next)),
                                   FadeDuration))) @@ a1
    IN [mixer |-> Some([mx[1] EXCEPT !.actions = a2]),
        activeAction |-> Some([root |-> mx[1].root, clip |-> next])]

\* The animation effect (deps: settings.activeAnimationIndex), run for the
\* new index: the mixer and the active action it leaves.
AnimationEffect(mx, act, names, index) ==
  IF mx = None \/ Len(names) = 0
    THEN [mixer |-> mx, activeAction |-> act]
  ELSE
    LET a0 == mx[1].actions
        a1 == IF act # None /\ act[1].clip \in DOMAIN a0
                THEN [a0 EXCEPT ![act[1].clip] = FadeOut(@, FadeDuration)]
                ELSE a0
        next == NextClip(names, index)
        a2 == (next :> Play(FadeIn(ResetAction(ClipAction(a1, next)),
                                   FadeDuration))) @@ a1
    IN [mixer |-> Some([mx[1] EXCEPT !.actions = a2]),
        activeAction |-> Some([root |-> mx[1].root, clip |-> next])]

\* ------------------------------------------------------- settings effect

\* The values the Point Size slider is moved between, in hundredths.
PointSizes == {5, 20}

\* model.traverse(c => isBone): the object rooted at m has a bone.
HasBones(ls, m) ==
  /\ m # NoObject
  /\ \E k \in 1..Len(ls[m[2]].file.nodes) :
       ls[m[2]].file.nodes[k].kind = "Bone"

\* The node list of the object rooted at m, as processResult built it.
ObjectOf(ls, m) == BuildObject(ls[m[2]].ext, ls[m[2]].file.nodes)

\* What the program reads and writes of a node's material: wireframe (mesh
\* materials), size in hundredths and sizeAttenuation (point materials).
Flags(has, wireframe, size, sizeAttenuation) ==
  [has |-> has, wireframe |-> wireframe, size |-> size,
   sizeAttenuation |-> sizeAttenuation]

\* The materials of the object processResult built, node by node. A
\* PointsMaterial the program makes (pcd, ply, xyz) has size pointSize, the
\* settings.pointSize of the render in which the load effect ran, and three's
\* default sizeAttenuation; one made by GLTFLoader or OBJLoader has size 1 and
\* no size attenuation. Mesh materials start with wireframe off.
BuiltFlags(ext, object, pointSize) ==
  [k \in 1..Len(object) |->
     IF object[k].mat = 0 \/ ~IsMeshLike(object[k])
       THEN Flags(FALSE, FALSE, 0, FALSE)
     ELSE IF object[k].kind = "Mesh" THEN Flags(TRUE, FALSE, 0, FALSE)
     ELSE IF IsInterchange(ext) \/ ext = Obj THEN Flags(TRUE, FALSE, 100, FALSE)
     ELSE Flags(TRUE, FALSE, pointSize, TRUE)]

\* A variant of WriteFlags that writes the wireframe flag of the mesh
\* materials and leaves the point materials as they are.
WriteWireframeOnly(object, flags, st) ==
  [k \in 1..Len(object) |->
     IF object[k].kind = "Mesh" /\ flags[k].has
       THEN [flags[k] EXCEPT !.wireframe = st.wireframe]
       ELSE flags[k]]

\* The settings effect, model.traverse: every mesh material gets the
\* wireframe setting, every point material the point size and size
\* attenuation.
WriteFlags(object, flags, st) ==
  [k \in 1..Len(object) |->
     IF object[k].kind = "Mesh" /\ flags[k].has
       THEN [flags[k] EXCEPT !.wireframe = st.wireframe]
     ELSE IF object[k].kind = "Points" /\ flags[k].has
       THEN [flags[k] EXCEPT !.size = st.pointSize, !.sizeAttenuation = TRUE]
     ELSE flags[k]]

\* The settings effect (deps: model, wireframe, pointSize, showSkeleton) run
\* for object m under settings st: the material flags and the skeleton
\* helper it leaves. It makes a helper only when none is held.
SettingsEffect(ls, m, st, flags, helper) ==
  IF m = NoObject THEN [materialFlags |-> flags, skeletonHelper |-> helper]
  ELSE
    [materialFlags |->
       m :> WriteFlags(ObjectOf(ls, m), flags[m], st),
     skeletonHelper |->
       IF st.showSkeleton
         THEN IF HasBones(ls, m) /\ helper = None
                THEN Some([of |-> m, attached |-> TRUE])
                ELSE helper
         ELSE None]

\* The cleanup of a load effect run: scene.remove(skeletonHelper.current),
\* the ref keeps the helper.
RemoveHelper(helper) ==
  IF helper = None THEN None ELSE Some([helper[1] EXCEPT !.attached = FALSE])

\* A variant of DisposeDecoders whose cleanup releases nothing.
KeepDecoders(ls) == ls

\* The cleanup the previous run of the load effect returned:
\* dracoLoader.dispose(), ktx2Loader.dispose() on that run's decoders
\* (disposals counts the calls made on each of the two).
DisposeDecoders(ls) ==
  IF cleanupOf = 0 THEN ls ELSE [ls EXCEPT ![cleanupOf].disposals = @ + 1]

\* What a load remembers of the session at the moment it is started (pre), and
\* whether it was still the current request when its result was applied
\* (applied): history kept for the properties, read by no action.
Snapshot ==
  [model |-> model, metadata |-> metadata, mixer |-> mixer, clips |-> clips,
   activeAction |-> activeAction]

NewLoad(file, ext, phase, events) ==
  [file |-> file, ext |-> ext, phase |-> phase, error |-> "none",
   events |-> events, disposals |-> 0, applied |-> "no", pre |-> Snapshot]

\* handleFileUpload(file), the render it causes, and the load effect's run for
\* the new modelUrl/extension: the previous run's cleanup, then either the
\* null guard (the extension is '') or the decoders and loadModel() up to its
\* first await.
HandleFileUpload(file) ==
  LET id == Len(loads) + 1
      ext == FileExt(file.name)
  IN /\ Len(loads) + Len(exports) < MaxOps
     /\ modelUrl' = id
     /\ extension' = Some(ext)
     /\ appState' = "LOADING"
     /\ metadata' = Some(InitialMetadata(file))
     /\ mixer' = IF cleanupOf = 0 THEN mixer ELSE StopAllAction(mixer)
     /\ skeletonHelper' =
          IF cleanupOf = 0 THEN skeletonHelper ELSE RemoveHelper(skeletonHelper)
     /\ IF ext = <<>>
          THEN /\ model' = NoObject
               /\ graph' = Render(graph, model, NoObject)
               /\ cleanupOf' = 0
               /\ loads' = Append(DisposeDecoders(loads),
                                  NewLoad(file, ext, "noload", <<>>))
               /\ UNCHANGED loadingStatus
          ELSE /\ loadingStatus' = FetchingStatus
               /\ cleanupOf' = id
               /\ loads' = Append(DisposeDecoders(loads),
                                  NewLoad(file, ext, "fetching",
                                          <<"status:fetching", "fetch">>))
               /\ UNCHANGED <<model, graph>>
     /\ UNCHANGED <<exportProgress, exportSettings, settingsVars, clips,
                    activeAction, materialFlags, exports, downloads, pureVars, frameVars>>

\* reset(), the render it causes, and the load effect's run for the null
\* modelUrl: the previous run's cleanup, then setModel(null).
Reset ==
  /\ modelUrl # 0
  /\ modelUrl' = 0
  /\ extension' = None
  /\ metadata' = None
  /\ appState' = "IDLE"
  /\ mixer' = IF cleanupOf = 0 THEN mixer ELSE StopAllAction(mixer)
  /\ skeletonHelper' =
       IF cleanupOf = 0 THEN skeletonHelper ELSE RemoveHelper(skeletonHelper)
  /\ loads' = DisposeDecoders(loads)
  /\ cleanupOf' = 0
  /\ model' = NoObject
  /\ graph' = Render(graph, model, NoObject)
  /\ materialFlags' = <<>>
  /\ UNCHANGED <<loadingStatus, exportProgress, exportSettings, settingsVars,
                 clips, activeAction, exports, downloads, pureVars, frameVars>>

\* handleError(err) called by load i
HandleError(i, kind, message, events) ==
  /\ loadingStatus' = ErrorStatus(message)
  /\ loads' = [loads EXCEPT ![i].phase = "failed", ![i].error = kind,
                            ![i].events = Append(events, "error")]
  /\ UNCHANGED <<appState, exportProgress, modelUrl, extension, metadata,
                 exportSettings, settingsVars, viewerVars, cleanupOf, exports,
                 downloads, pureVars, frameVars>>

\* processResult(result) called by load i: the object and the animation
\* runtime are rebuilt, the object is installed (setModel and the render it
\* causes) and the counts are reported (onModelMetadata = handleMetadataLoaded).
\* Nothing in it asks whether load i is still the current one.
ProcessResult(i, events) ==
  LET ext == loads[i].ext
      file == loads[i].file
      object == BuildObject(ext, file.nodes)
      modelAnimations == IF IsInterchange(ext) THEN file.animations ELSE <<>>
      root == ObjId(i, 1)
      created ==
        [n \in {ObjId(i, k) : k \in 1..Len(object)} |->
           IF n = root THEN [parent |-> NoObject, pos |-> 0, geo |-> file.geo]
                       ELSE [parent |-> root, pos |-> 0, geo |-> 0]]
      \* the mixer and the first clip's action, made by processResult
      newMixer == IF Len(modelAnimations) > 0
                    THEN Some([root |-> root, actions |-> 1 :> Play(NewAction)])
                    ELSE None
      newAction == IF Len(modelAnimations) > 0
                     THEN Some([root |-> root, clip |-> 1])
                     ELSE None
      \* handleMetadataLoaded resets the index; the animation effect runs in
      \* the render that follows when that changed it
      settings == ResetIndex(sceneSettings)
      switched ==
        IF settings.activeAnimationIndex # sceneSettings.activeAnimationIndex
          THEN AnimationEffect(newMixer, newAction, modelAnimations,
                               settings.activeAnimationIndex)
          ELSE [mixer |-> newMixer, activeAction |-> newAction]
      \* the settings effect runs in the same render: the model changed
      \* (pointSize: the settings.pointSize processResult read)
      shown(pointSize) ==
        SettingsEffect(loads, root, settings,
                       root :> BuiltFlags(ext, object, pointSize),
                       skeletonHelper)
  IN /\ clips' = [of |-> i, names |-> modelAnimations]
     /\ mixer' = switched.mixer
     /\ activeAction' = switched.activeAction
     /\ sceneSettings' = settings
     /\ \E pointSize \in PointSizes :
          /\ materialFlags' = shown(pointSize).materialFlags
          /\ skeletonHelper' = shown(pointSize).skeletonHelper
     /\ model' = root
     \* setTimeout(() => frameCamera(object), 100)
     /\ timers' = Append(timers, root)
     /\ graph' = Render(created @@ graph, model, root)
     /\ metadata' =
          MergeMetadata(metadata, ExtractMetadata(ext, object, modelAnimations))
     /\ appState' = "VIEWING"
     /\ loads' = [loads EXCEPT ![i].phase = "done",
                               ![i].events = events \o <<"setModel", "metadata">>,
                               ![i].applied =
                                  IF modelUrl = i THEN "current" ELSE "stale"]
     /\ UNCHANGED <<exportProgress, modelUrl, extension, exportSettings,
                    changes, cleanupOf, exports, downloads, pureVars, camera, target, framed,
                    frameCalls>>

Fetching(i) == i \in 1..Len(loads) /\ loads[i].phase = "fetching"
Parsing(i) == i \in 1..Len(loads) /\ loads[i].phase = "parsing"

\* loadModel: fetch(modelUrl) or response.arrayBuffer() rejects; the catch
\* block reports it.
FetchFails(i) ==
  /\ Fetching(i)
  /\ HandleError(i, "fetch", FetchMessage, loads[i].events)

\* loadModel: the buffer arrives and ext is glb or gltf: the status, then
\* loader.parse(buffer, '', processResult, handleError), which returns at once
\* and calls back later.
FetchedInterchange(i) ==
  /\ Fetching(i)
  /\ IsInterchange(loads[i].ext)
  /\ loadingStatus' = DecodingStatus(loads[i].ext)
  /\ loads' = [loads EXCEPT ![i].phase = "parsing",
                            ![i].events = Append(@, "status:decoding")]
  /\ UNCHANGED <<appState, exportProgress, modelUrl, extension, metadata,
                 exportSettings, settingsVars, viewerVars, cleanupOf, exports,
                 downloads, pureVars, frameVars>>

\* loadModel: the buffer arrives and ext is obj, ply, pcd or xyz: the status,
\* the synchronous parse and processResult.
FetchedAndParsed(i) ==
  /\ Fetching(i)
  /\ loads[i].ext \in {Obj, Ply, Pcd, Xyz}
  /\ loadingStatus' = DecodingStatus(loads[i].ext)
  /\ ProcessResult(i, Append(loads[i].events, "status:decoding"))

\* The same, with a parser that throws: the catch block reports it (the
\* decoding status was set first and is overwritten).
FetchedParseThrows(i) ==
  /\ Fetching(i)
  /\ loads[i].ext \in {Obj, Ply, Pcd, Xyz}
  /\ HandleError(i, "parse", ParseMessage,
                 Append(loads[i].events, "status:decoding"))

\* loadModel: the buffer arrives and ext is none of the six: the default
\* branch of the switch.
FetchedUnsupported(i) ==
  /\ Fetching(i)
  /\ loads[i].ext \notin SupportedExtension
  /\ HandleError(i, "unsupported", UnsupportedMessage(loads[i].ext),
                 Append(loads[i].events, "status:decoding"))

\* GLTFLoader.parse calls onLoad = processResult
ParseDone(i) ==
  /\ Parsing(i)
  /\ UNCHANGED loadingStatus
  /\ ProcessResult(i, loads[i].events)

\* GLTFLoader.parse calls onError = handleError
ParseError(i) ==
  /\ Parsing(i)
  /\ HandleError(i, "parse", ParseMessage, loads[i].events)

\* ---------------------------------------------------------------- export

\* toggleDraco / toggleKTX2 (ToggleDracoKeepKtx2: a variant of toggleDraco
\* that leaves the ktx2 flag as it is). The two toggles live in the export modal, which
\* opens from a button rendered only while metadata is set. They are followed
\* while an export can still read them.
ToggleDracoKeepKtx2 ==
  /\ metadata # None
  /\ Len(loads) + Len(exports) < MaxOps
  /\ exportSettings' = [exportSettings EXCEPT !.draco = ~@]
  /\ UNCHANGED <<appState, loadingStatus, exportProgress, modelUrl, extension,
                 metadata, settingsVars, viewerVars, asyncVars, pureVars, frameVars>>
ToggleDraco ==
  /\ metadata # None
  /\ Len(loads) + Len(exports) < MaxOps
  /\ exportSettings' = [draco |-> ~exportSettings.draco, ktx2 |-> FALSE]
  /\ UNCHANGED <<appState, loadingStatus, exportProgress, modelUrl, extension,
                 metadata, settingsVars, viewerVars, asyncVars, pureVars, frameVars>>
ToggleKTX2 ==
  /\ metadata # None
  /\ Len(loads) + Len(exports) < MaxOps
  /\ exportSettings' = [draco |-> FALSE, ktx2 |-> ~exportSettings.ktx2]
  /\ UNCHANGED <<appState, loadingStatus, exportProgress, modelUrl, extension,
                 metadata, settingsVars, viewerVars, asyncVars, pureVars, frameVars>>

\* handleExport: Math.min(prev + increment, 100) with increment = 100 / steps
ProgressIncrement == 100 \div TicksToFull

\* handleExport up to its return: the state changes, and the interval and the
\* timeout it starts. The timeout's callback keeps the metadata.name and the
\* exportSettings of this call (current: the object installed at the call,
\* which the callback does not keep).
HandleExport ==
  /\ metadata # None
  /\ Len(loads) + Len(exports) < MaxOps
  /\ appState' = "OPTIMIZING"
  /\ exportProgress' = 0
  /\ exports' = Append(exports,
       [fileName |-> metadata[1].name, draco |-> exportSettings.draco,
        ktx2 |-> exportSettings.ktx2, interval |-> TRUE, timeout |-> "armed",
        encode |-> "none", outcome |-> "none", current |-> model,
        source |-> NoObject, animations |-> 0])
  /\ UNCHANGED <<loadingStatus, modelUrl, extension, metadata, exportSettings,
                 settingsVars, viewerVars, loads, cleanupOf, downloads,
                 pureVars, frameVars>>

\* One tick of the setInterval of export j.
IntervalTick(j) ==
  /\ j \in 1..Len(exports)
  /\ exports[j].interval
  /\ IF exportProgress >= 100
       THEN /\ exports' = [exports EXCEPT ![j].interval = FALSE]
            /\ exportProgress' = 100
       ELSE /\ exportProgress' =
                 (IF exportProgress + ProgressIncrement < 100
                    THEN exportProgress + ProgressIncrement ELSE 100)
            /\ UNCHANGED exports
  /\ UNCHANGED <<appState, loadingStatus, modelUrl, extension, metadata,
                 exportSettings, settingsVars, viewerVars, loads, cleanupOf,
                 downloads, pureVars, frameVars>>

\* A variant of ExportGraph that translates and re-parents the live object
\* itself (const clone = model).
ExportGraphNoClone(g, m, j) ==
  LET center == g[m].pos + g[m].geo
  IN [g EXCEPT ![m].pos = @ - center, ![m].parent = ExportSceneOf(j)]

\* exportModel, up to exportScene.add(clone): model.clone() copies the object
\* and, recursively, its children; the copy is detached. The centre of the
\* copy's bounding box is subtracted from the copy's position and the copy is
\* added to the export scene.
ExportGraph(g, m, j) ==
  LET src == ObjNodes(g, m)
      cl(n) == CloneId(j, n[3])
      cloned ==
        [c \in {cl(n) : n \in src} |->
           LET n == CHOOSE x \in src : cl(x) = c
           IN [parent |-> IF n = m THEN NoObject ELSE cl(m),
               pos |-> g[n].pos, geo |-> g[n].geo]]
      g1 == cloned @@ g
      center == g1[cl(m)].pos + g1[cl(m)].geo
  IN [g1 EXCEPT ![cl(m)].pos = @ - center, ![cl(m)].parent = ExportSceneOf(j)]

\* How the promise of exportModel settles. The function is async, awaits
\* nothing and throws nothing on its own path: the promise is fulfilled when
\* the body returns, that is when exporter.parse has been started. The
\* exporter reports through its callbacks afterwards.
ExportModelSettles == "fulfilled"

\* The setTimeout callback of export j: exportModel(config) and the
\* continuation after the await.
ExportTimeout(j) ==
  /\ j \in 1..Len(exports)
  /\ exports[j].timeout = "armed"
  /\ IF model = NoObject
       THEN UNCHANGED graph
       ELSE graph' = ExportGraph(graph, model, j)
  /\ exports' =
       [exports EXCEPT
          ![j].timeout = "fired",
          ![j].source = model,
          ![j].animations = IF model = NoObject THEN 0 ELSE clips.of,
          ![j].encode = IF model = NoObject THEN "none" ELSE "pending",
          ![j].outcome =
             IF ExportModelSettles = "fulfilled" THEN "success" ELSE "failed"]
  /\ appState' = "VIEWING"
  /\ exportProgress' =
       IF ExportModelSettles = "fulfilled" THEN 0 ELSE exportProgress
  /\ UNCHANGED <<loadingStatus, modelUrl, extension, metadata, exportSettings,
                 settingsVars, model, mixer, clips, activeAction, lookVars,
                 loads, cleanupOf, downloads, pureVars, frameVars>>

\* The exporter's onDone callback: the download is triggered.
EncodeDone(j) ==
  /\ j \in 1..Len(exports)
  /\ exports[j].encode = "pending"
  /\ exports' = [exports EXCEPT ![j].encode = "done"]
  /\ downloads' =
       Append(downloads,
              ExportName(exports[j].fileName, exports[j].draco, exports[j].ktx2))
  /\ UNCHANGED <<appVars, viewerVars, loads, cleanupOf, pureVars, frameVars>>

\* The exporter's onError callback: console.error and a throw inside the
\* callback, which reaches no caller of exportModel.
EncodeError(j) ==
  /\ j \in 1..Len(exports)
  /\ exports[j].encode = "pending"
  /\ exports' = [exports EXCEPT ![j].encode = "error"]
  /\ UNCHANGED <<appVars, viewerVars, loads, cleanupOf, downloads, pureVars, frameVars>>

\* -------------------------------------------------------- scene controls

\* A variant of ChangeLook in which the settings effect re-runs the metadata
\* traversal of the installed object and reports it again.
ChangeLookRecount(st) ==
  LET shown == SettingsEffect(loads, model, st, materialFlags, skeletonHelper)
  IN /\ sceneSettings' = st
     /\ materialFlags' = shown.materialFlags
     /\ skeletonHelper' = shown.skeletonHelper
     /\ changes' = changes + 1
     /\ loads' = IF model = NoObject THEN loads
                 ELSE [loads EXCEPT ![model[2]].events = Append(@, "metadata")]
     /\ UNCHANGED <<appState, loadingStatus, exportProgress, modelUrl,
                    extension, metadata, exportSettings, model, mixer, clips,
                    activeAction, graph, cleanupOf, exports, downloads,
                    pureVars, frameVars>>

\* A change of wireframe, pointSize or showSkeleton to the settings st, and the
\* settings effect of the render that follows.
ChangeLook(st) ==
  LET shown == SettingsEffect(loads, model, st, materialFlags, skeletonHelper)
  IN /\ sceneSettings' = st
     /\ materialFlags' = shown.materialFlags
     /\ skeletonHelper' = shown.skeletonHelper
     /\ changes' = changes + 1
     /\ UNCHANGED <<appState, loadingStatus, exportProgress, modelUrl,
                    extension, metadata, exportSettings, model, mixer, clips,
                    activeAction, graph, asyncVars, pureVars, frameVars>>

ToggleWireframe ==
  /\ changes < MaxSettings
  /\ ChangeLook([sceneSettings EXCEPT !.wireframe = ~@])
ToggleSkeleton ==
  /\ changes < MaxSettings
  /\ ChangeLook([sceneSettings EXCEPT !.showSkeleton = ~@])
SetPointSize(v) ==
  /\ changes < MaxSettings
  /\ v # sceneSettings.pointSize
  /\ ChangeLook([sceneSettings EXCEPT !.pointSize = v])

\* The Animation toggle: read by useFrame only, no effect depends on it.
TogglePlayAnimation ==
  /\ changes < MaxSettings
  /\ sceneSettings' = [sceneSettings EXCEPT !.playAnimation = ~@]
  /\ changes' = changes + 1
  /\ UNCHANGED <<appState, loadingStatus, exportProgress, modelUrl, extension,
                 metadata, exportSettings, viewerVars, asyncVars, pureVars, frameVars>>

\* settings.activeAnimationIndex becomes index, and the animation effect of
\* the render that follows.
SetActiveAnimationIndex(index) ==
  LET switched == AnimationEffect(mixer, activeAction, clips.names, index)
  IN /\ index # sceneSettings.activeAnimationIndex
     /\ sceneSettings' = [sceneSettings EXCEPT !.activeAnimationIndex = index]
     /\ mixer' = switched.mixer
     /\ activeAction' = switched.activeAction
     /\ changes' = changes + 1
     /\ UNCHANGED <<appState, loadingStatus, exportProgress, modelUrl,
                    extension, metadata, exportSettings, model, clips, graph,
                    lookVars, asyncVars, pureVars, frameVars>>

\* The Active Track select: shown while the metadata lists animations, one
\* option per name.
SelectTrack(index) ==
  /\ changes < MaxSettings
  /\ metadata # None
  /\ index \in 0..(Len(metadata[1].animations) - 1)
  /\ SetActiveAnimationIndex(index)

\* ModelManager given a new settings prop by its parent: any index.
SwitchTrack(index) ==
  /\ changes < MaxSwitches
  /\ SetActiveAnimationIndex(index)

\* useFrame: mixer.update(delta) advances the running actions.
UseFrame ==
  /\ mixer # None
  /\ sceneSettings.playAnimation
  /\ \E c \in DOMAIN mixer[1].actions :
       mixer[1].actions[c].running /\ mixer[1].actions[c].time = 0
  /\ mixer' = Some([mixer[1] EXCEPT
                      !.actions = [c \in DOMAIN mixer[1].actions |->
                                     IF mixer[1].actions[c].running
                                       THEN [mixer[1].actions[c] EXCEPT !.time = 1]
                                       ELSE mixer[1].actions[c]]])
  /\ UNCHANGED <<appVars, model, clips, activeAction, graph, lookVars,
                 asyncVars, pureVars, frameVars>>

\* ------------------------------------------------------- specifications

\* What the user does.
UserNext ==
  \/ \E file \in Files : HandleFileUpload(file)
  \/ Reset
  \/ HandleExport
  \/ ToggleDraco
  \/ ToggleKTX2

\* What happens without the user: promises settle, timers fire, the parser and
\* the exporter call back.
LoadNext ==
  \E i \in 1..MaxOps :
    \/ FetchFails(i)
    \/ FetchedInterchange(i)
    \/ FetchedAndParsed(i)
    \/ FetchedParseThrows(i)
    \/ FetchedUnsupported(i)
    \/ ParseDone(i)
    \/ ParseError(i)
ExportNext ==
  \E j \in 1..MaxOps :
    \/ IntervalTick(j)
    \/ ExportTimeout(j)
    \/ EncodeDone(j)
    \/ EncodeError(j)
Next == UserNext \/ LoadNext \/ ExportNext

Spec == Init /\ [][Next]_vars

\* The naming functions on their own: every name up to MaxNameLen over a small
\* alphabet, every combination of the two flags.
RECURSIVE NamesOfLen(_)
NamesOfLen(n) ==
  IF n = 0 THEN {<<>>}
  ELSE {Append(s, c) : s \in NamesOfLen(n - 1), c \in {"a", "B", "."}}
\* "." and ".." name directories, never a file.
Names == UNION {NamesOfLen(n) : n \in 1..MaxNameLen} \ {<<".">>, <<".", ".">>}

InitNames ==
  /\ SessionInit
  /\ pfName \in Names
  /\ pfDraco \in BOOLEAN
  /\ pfKtx2 \in BOOLEAN
  /\ pfOut = None
  /\ px = PxIdle
  /\ pd = PdIdle

\* exportModel's onDone names the download.
NameExport ==
  /\ pfOut = None
  /\ pfOut' = Some(ExportName(pfName, pfDraco, pfKtx2))
  /\ UNCHANGED <<sessionVars, pfName, pfDraco, pfKtx2, px, pd>>

NextNames == NameExport

SpecNames == InitNames /\ [][NextNames]_vars

\* Loading and the scene controls: the user selects files, resets, and changes
\* the wireframe, skeleton, point-size and active-track settings; nothing is
\* exported.
ControlsNext ==
  \/ ToggleWireframe
  \/ ToggleSkeleton
  \/ \E v \in PointSizes : SetPointSize(v)
  \/ \E index \in 0..MaxTrackIndex : SelectTrack(index)

\* The loads of the scene files: they succeed, or fail in the interchange
\* parser.
SceneLoadNext ==
  \E i \in 1..MaxOps :
    \/ FetchedInterchange(i)
    \/ FetchedAndParsed(i)
    \/ ParseDone(i)
    \/ ParseError(i)

NextScene ==
  \/ \E file \in SceneFiles : HandleFileUpload(file)
  \/ Reset
  \/ ControlsNext
  \/ SceneLoadNext

SpecScene == Init /\ [][NextScene]_vars

\* The animation effect on its own: the animated asset is loaded into the
\* viewer, the parent gives any activeAnimationIndex, playback is paused or
\* not, frames go by.
LoadAnimated ==
  /\ Len(loads) = 0
  /\ HandleFileUpload(GlbFile)

NextAnim ==
  \/ LoadAnimated
  \/ FetchedInterchange(1)
  \/ ParseDone(1)
  \/ \E index \in 0..MaxTrackIndex : SwitchTrack(index)
  \/ TogglePlayAnimation
  \/ UseFrame

SpecAnim == Init /\ [][NextAnim]_vars

\* The extraction on its own: every parser result up to MaxNodes nodes, for
\* every extension of the table; the object is built, then traversed twice.
AnimationsOf(ext) ==
  IF IsInterchange(ext) THEN {<<>>, <<"Walk", "">>} ELSE {<<>>}

InitExtract ==
  /\ SessionInit
  /\ pfName = <<>>
  /\ pfDraco = FALSE
  /\ pfKtx2 = FALSE
  /\ pfOut = None
  /\ pd = PdIdle
  /\ px \in UNION {
        {Px("parsed", ext, nodes, animations, <<>>, <<>>, None, None) :
           nodes \in ParserResults(ext), animations \in AnimationsOf(ext)} :
        ext \in SupportedExtension}

\* processResult, the branch on ext
Normalize ==
  /\ px.stage = "parsed"
  /\ px' = [px EXCEPT !.stage = "built",
                      !.object = BuildObject(px.ext, px.nodes)]
  /\ UNCHANGED <<sessionVars, pfName, pfDraco, pfKtx2, pfOut, pd>>

\* processResult, the traversal and the counts it reports
Extract ==
  /\ px.stage = "built"
  /\ px' = [px EXCEPT
              !.stage = "once",
              !.before = px.object,
              !.first = Some(ExtractMetadata(px.ext, px.object, px.animations)),
              !.object = TraversedObject(px.ext, px.object, 1)]
  /\ UNCHANGED <<sessionVars, pfName, pfDraco, pfKtx2, pfOut, pd>>

\* The same traversal run once more on the object the first one left.
ExtractAgain ==
  /\ px.stage = "once"
  /\ px' = [px EXCEPT
              !.stage = "twice",
              !.second = Some(ExtractMetadata(px.ext, px.object, px.animations)),
              !.object = TraversedObject(px.ext, px.object, 2)]
  /\ UNCHANGED <<sessionVars, pfName, pfDraco, pfKtx2, pfOut, pd>>

NextExtract == Normalize \/ Extract \/ ExtractAgain

SpecExtract == InitExtract /\ [][NextExtract]_vars

\* The dispatch on the file name on its own. The names: a stem, a ".", and
\* an extension of the table or outside it in three letter cases; and the
\* same extensions as names without ".".
DispatchNames ==
  LET stems == {<<>>, <<"a">>, <<"a", ".", "b">>, <<"x", ".", "p", "l", "y">>}
      exts ==
        SupportedExtension \cup {<<>>, <<"s", "t", "l">>, <<"g", "l", "b", "x">>}
      variants(e) ==
        {e, toUpperCase(e),
         [i \in 1..Len(e) |-> IF i = 1 THEN UpperChar(e[i]) ELSE e[i]]}
  IN (UNION {{stem \o <<".">> \o v : stem \in stems, v \in variants(e)}
               : e \in exts}
      \cup UNION {variants(e) : e \in exts \ {<<>>}})
     \ {<<".">>}

\* The load effect for an extension: the null guard when it is '', else the
\* case of the switch on extension.toLowerCase() that loadModel takes once
\* the buffer has arrived.
LoaderBranch(extensionProp) ==
  LET ext == toLowerCase(extensionProp)
  IN IF extensionProp = <<>> THEN "none"
     ELSE IF ext = Glb \/ ext = Gltf THEN "GLTFLoader"
     ELSE IF ext = Obj THEN "OBJLoader"
     ELSE IF ext = Ply THEN "PLYLoader"
     ELSE IF ext = Pcd THEN "PCDLoader"
     ELSE IF ext = Xyz THEN "XYZLoader"
     ELSE "unsupported"

InitDispatch ==
  /\ SessionInit
  /\ pfName = <<>>
  /\ pfDraco = FALSE
  /\ pfKtx2 = FALSE
  /\ pfOut = None
  /\ px = PxIdle
  /\ pd \in {Pd("named", name, <<>>, "") : name \in DispatchNames}

\* handleFileUpload takes the extension; the load effect branches on it.
Dispatch ==
  /\ pd.stage = "named"
  /\ pd' = Pd("dispatched", pd.name, FileExt(pd.name),
              LoaderBranch(FileExt(pd.name)))
  /\ UNCHANGED <<sessionVars, pfName, pfDraco, pfKtx2, pfOut, px>>

SpecDispatch == InitDispatch /\ [][Dispatch]_vars

\* ------------------------------------------------- the camera framing

\* The automatic framing: the timer armed by processResult fires and frames
\* the object processResult built. Timers of equal delay fire in the order
\* they were armed; nothing cancels one.
FrameTimeout ==
  /\ timers # <<>>
  /\ LET shot == FrameCamera(camera, graph, loads, Head(timers))
     IN /\ camera' = shot.camera
        /\ target' = shot.target
  /\ framed' = Append(framed, Head(timers))
  /\ timers' = Tail(timers)
  /\ UNCHANGED <<appVars, viewerVars, asyncVars, frameCalls, pureVars>>

\* The Frame View button (rendered while modelUrl is set) calls
\* viewerRef.current.frameModel(): if (model) frameCamera(model).
FrameModel ==
  /\ modelUrl # 0
  /\ frameCalls < MaxFrames
  /\ frameCalls' = frameCalls + 1
  /\ IF model # NoObject
       THEN LET shot == FrameCamera(camera, graph, loads, model)
            IN /\ camera' = shot.camera
               /\ target' = shot.target
               /\ framed' = Append(framed, model)
       ELSE UNCHANGED <<camera, target, framed>>
  /\ UNCHANGED <<appVars, viewerVars, asyncVars, timers, pureVars>>

\* The canvas is measured or resized: the renderer sets the camera's aspect
\* ratio to width / height.
Resize(aspect) ==
  /\ camera.aspect # aspect
  /\ camera' = [camera EXCEPT !.aspect = aspect]
  /\ UNCHANGED <<appVars, viewerVars, asyncVars, target, timers, framed,
                 frameCalls, pureVars>>

\* The framing followed over the loads of a.GLB and b.ply, with a canvas
\* that is taller than wide or wider than tall.
NextFrame ==
  \/ \E file \in {GlbFile, PlyFile} : HandleFileUpload(file)
  \/ Reset
  \/ \E i \in 1..MaxOps :
       \/ FetchedInterchange(i)
       \/ FetchedAndParsed(i)
       \/ ParseDone(i)
  \/ FrameTimeout
  \/ FrameModel
  \/ \E aspect \in {50, 200} : Resize(aspect)

SpecFrame == Init /\ [][NextFrame]_vars

\* ------------------------------------------------------------- properties

LoadIds == 1..Len(loads)
ExportIds == 1..Len(exports)
Completed(i) == loads[i].phase \in {"done", "failed", "noload"}
AllCompleted == \A i \in LoadIds : Completed(i)
Latest == Len(loads)

\* C1: last-load-wins. In every final state (every load completed, the most
\* recently started one successfully and still selected) the installed object,
\* the clip list and the metadata counts are those of the most recently
\* started load, whatever order the loads completed in.
C1_LastLoadWins ==
  (/\ Len(loads) >= 2
   /\ AllCompleted
   /\ modelUrl = Latest
   /\ loads[Latest].phase = "done")
  => /\ model = ObjId(Latest, 1)
     /\ clips.of = Latest
     /\ metadata =
          MergeMetadata(
            Some(InitialMetadata(loads[Latest].file)),
            ExtractMetadata(loads[Latest].ext,
                            BuildObject(loads[Latest].ext,
                                        loads[Latest].file.nodes),
                            IF IsInterchange(loads[Latest].ext)
                              THEN loads[Latest].file.animations ELSE <<>>))

\* C2: a load is all-or-nothing. When the load started while an asset was
\* displayed has failed (and is the last thing the user asked for), the
\* installed object, the metadata and the animation playback are those of
\* the moment before the load.
C2_FailedLoadChangesNothing ==
  \A i \in LoadIds :
    (/\ i = Latest
     /\ modelUrl = i
     /\ loads[i].phase = "failed"
     /\ loads[i].pre.model # NoObject)
    => /\ model = loads[i].pre.model
       /\ metadata = loads[i].pre.metadata
       /\ mixer = loads[i].pre.mixer
       /\ activeAction = loads[i].pre.activeAction
       /\ clips = loads[i].pre.clips

\* C3: after a load fails the application leaves LOADING without the user.
\* Stated on the states a finite run ends in: once the current load has failed
\* and nothing is pending any more, appState is IDLE or VIEWING.
C3_FailedLoadLeavesLoading ==
  \A i \in LoadIds :
    (/\ i = Latest
     /\ modelUrl = i
     /\ loads[i].phase = "failed"
     \* nothing is left that happens without the user
     /\ AllCompleted
     /\ \A j \in ExportIds :
          /\ ~exports[j].interval
          /\ exports[j].timeout = "fired"
          /\ exports[j].encode # "pending")
    => appState \in {"IDLE", "VIEWING"}

\* C4: a file whose extension is none of the six fails with the
\* unsupported-format error, installs no object and reports no metadata.
C4_UnsupportedRejected ==
  \A i \in LoadIds :
    (loads[i].ext \notin SupportedExtension /\ Completed(i))
    => /\ loads[i].phase = "failed"
       /\ loads[i].error = "unsupported"
       /\ \A k \in 1..Len(loads[i].events) :
            loads[i].events[k] \notin {"setModel", "metadata"}

\* C5: the unsupported-format error comes before any I/O and any decode
\* attempt: the load that reports it has issued no fetch and emitted no
\* decoding status.
C5_UnsupportedBeforeIO ==
  \A i \in LoadIds :
    loads[i].error = "unsupported"
    => \A k \in 1..Len(loads[i].events) :
         loads[i].events[k] \notin {"fetch", "status:decoding"}

\* C6: a serialization failure propagates: an export whose exporter called
\* its error callback took the application's failure path, never the success
\* path.
C6_EncodeErrorPropagates ==
  \A j \in ExportIds :
    exports[j].encode = "error" => exports[j].outcome = "failed"

\* C7: the end state of an export waits for the real encode result: an export
\* that started an encode has left OPTIMIZING (and reset the progress) only
\* after the exporter's completion or error callback fired.
C7_EndStateAwaitsEncode ==
  \A j \in ExportIds :
    (exports[j].outcome # "none" /\ exports[j].source # NoObject)
    => exports[j].encode \in {"done", "error"}

\* C8: export never mutates the live scene. Every step of the export path
\* leaves the installed object the same object, with the same position, parent
\* and children, and the clip list unchanged; exportModel puts a new object,
\* centred, into the export scene and nothing else. (A step of the export
\* path changes exports: handleExport, an interval tick that clears the
\* interval, the timeout that calls exportModel, the exporter's callbacks.)
C8_ExportKeepsLiveScene ==
  [][exports' # exports =>
       /\ model' = model
       /\ clips' = clips
       /\ model # NoObject =>
            /\ graph'[model] = graph[model]
            /\ Children(graph', model) = Children(graph, model)
            /\ \A c \in Children(graph, model) : graph'[c] = graph[c]
       /\ \A j \in ExportIds :
            (/\ exports[j].timeout = "armed"
             /\ exports'[j].timeout = "fired"
             /\ model # NoObject) =>
              /\ CloneId(j, 1) \notin DOMAIN graph
              /\ Children(graph', ExportSceneOf(j)) = {CloneId(j, 1)}
              /\ graph'[CloneId(j, 1)].pos + graph'[CloneId(j, 1)].geo = 0
              /\ \A n \in DOMAIN graph : graph'[n] = graph[n]
    ]_vars

\* C8, witness: an export of an installed object whose bounding box is off
\* centre has run to the download, and the object is still installed.
C8_Witness ==
  \E j \in ExportIds :
    /\ exports[j].encode = "done"
    /\ exports[j].source = model
    /\ model # NoObject
    /\ graph[model].geo # 0
    /\ Children(graph, model) # {}

\* The part of a name before its last ".", the whole name when it holds none.
BeforeLastDot(name) ==
  IF LastDot(name) = 0 THEN name ELSE SubSeq(name, 1, LastDot(name) - 1)

\* The suffix table of the naming rule.
SuffixTable(draco, ktx2) ==
  CASE draco /\ ktx2 -> <<"_","d","r","a","c","o","_","k","t","x","2">>
    [] draco /\ ~ktx2 -> <<"_","d","r","a","c","o">>
    [] ~draco /\ ktx2 -> <<"_","k","t","x","2">>
    [] OTHER -> <<"_","o","p","t","i","m","i","z","e","d">>

\* C9, as claimed: for every file name the exported name is the part before
\* the last ".", then the suffix of the flags, then ".glb".
C9_NameCutAtLastDot ==
  pfOut # None =>
    pfOut[1] = BeforeLastDot(pfName) \o SuffixTable(pfDraco, pfKtx2) \o GlbExt

\* C9, amended: the same for every file name that does not end in "."; a name
\* that ends in "." is kept whole in front of the suffix.
C9_ExportFileName ==
  pfOut # None =>
    pfOut[1] =
      (IF LastDot(pfName) = Len(pfName) THEN pfName ELSE BeforeLastDot(pfName))
      \o SuffixTable(pfDraco, pfKtx2) \o GlbExt

\* C9, witness: "a.a.B" has been exported with both flags as
\* "a.a_draco_ktx2.glb".
C9_Witness ==
  /\ pfDraco /\ pfKtx2
  /\ pfName = <<"a", ".", "a", ".", "B">>
  /\ pfOut = Some(<<"a", ".", "a", "_","d","r","a","c","o","_","k","t","x","2",
                    ".","g","l","b">>)

\* C10: after a reset no object is installed until a new file is selected:
\* while modelUrl is null, model is null.
C10_ResetClearsScene ==
  modelUrl = 0 => model = NoObject

\* ------------------------------------------------- properties, C11 to C20

\* The objects attached under the viewer's group.
Installed == {n \in DOMAIN graph : graph[n].parent = Group}

\* C11: in every reachable state at most one object is installed, and
\* whenever one is installed the clip list, and the mixer's root when a mixer
\* exists, come from the load that built that object.
C11_OneObjectWithItsClips ==
  /\ Cardinality(Installed) <= 1
  /\ Installed = IF model = NoObject THEN {} ELSE {model}
  /\ model # NoObject =>
       /\ clips.of = model[2]
       /\ clips.names = (IF IsInterchange(loads[model[2]].ext)
                           THEN loads[model[2]].file.animations ELSE <<>>)
       /\ mixer # None => mixer[1].root = model
       /\ activeAction # None => activeAction[1].root = model

\* C11, witness: two overlapping loads have both completed, the earlier one
\* last, a setting was changed, and an animated object is installed.
C11_Witness ==
  /\ Len(loads) = 2
  /\ loads[1].applied = "stale"
  /\ loads[2].phase = "done"
  /\ changes > 0
  /\ model # NoObject
  /\ mixer # None

\* The number of times load i called onModelMetadata.
RECURSIVE CountIn(_, _)
CountIn(events, e) ==
  IF events = <<>> THEN 0
  ELSE (IF events[1] = e THEN 1 ELSE 0) + CountIn(Tail(events), e)

\* C12: the metadata callback (the end of the traversal) has been called
\* exactly once for every load that succeeded, never for a load that failed or
\* is pending, whatever settings were changed meanwhile.
C12_MetadataOncePerLoad ==
  \A i \in LoadIds :
    CountIn(loads[i].events, "metadata") =
      (IF loads[i].phase = "done" THEN 1 ELSE 0)

\* C12, witness: a load succeeded, a track was selected afterwards, and a
\* later load failed.
C12_Witness ==
  /\ Len(loads) = 2
  /\ loads[1].phase = "done"
  /\ loads[2].phase = "failed"
  /\ sceneSettings.activeAnimationIndex = 1
  /\ CountIn(loads[1].events, "metadata") = 1

\* The mesh-like nodes of an object.
MeshLike(object) == {k \in 1..Len(object) : IsMeshLike(object[k])}

\* C13: the reported material count is the number of distinct material
\* identities on the mesh/point nodes of the object given to the extraction:
\* nodes sharing one material count once, for every format.
C13_DistinctMaterialsCounted ==
  px.first # None =>
    px.first[1].materials =
      Cardinality({px.before[k].mat :
                     k \in {j \in MeshLike(px.before) : px.before[j].mat # 0}})

\* C14: the reported triangle count is the sum of the position counts of the
\* mesh nodes, divided by three and rounded down once; point nodes add nothing.
C14_TrianglesRoundedDown ==
  px.first # None =>
    px.first[1].triangles =
      SumPositions(px.before, {"Mesh"}, Len(px.before)) \div 3

\* An object whose only mesh-like node is a non-indexed mesh of n positions.
SingleMesh(object, n) ==
  /\ Cardinality(MeshLike(object)) = 1
  /\ \A k \in MeshLike(object) :
       object[k].kind = "Mesh" /\ object[k].index = -1 /\ object[k].pos = n

\* C15, as claimed: a single non-indexed mesh of 1000 vertices is reported
\* with 1000 triangles.
C15_ThousandVerticesThousandTriangles ==
  (px.first # None /\ SingleMesh(px.before, 1000))
  => px.first[1].triangles = 1000

\* C15, amended: a single non-indexed mesh of 1000 vertices is reported with
\* 1000 vertices and 333 triangles; 1000 triangles are reported for one of
\* 3000 vertices.
C15_ThousandVertices ==
  /\ (px.first # None /\ SingleMesh(px.before, 1000))
     => (px.first[1].vertices = 1000 /\ px.first[1].triangles = 333)
  /\ (px.first # None /\ SingleMesh(px.before, 3000))
     => (px.first[1].vertices = 3000 /\ px.first[1].triangles = 1000)

\* C15, witness: the extraction has run on an interchange asset with a single
\* non-indexed mesh of 1000 vertices and reported 333 triangles.
C15_Witness ==
  /\ px.stage = "once"
  /\ px.ext = Glb
  /\ SingleMesh(px.before, 1000)
  /\ px.first[1].triangles = 333

\* C16: the extraction is idempotent: a second run on the same object reports
\* what the first reported, and a run leaves every node of the object with
\* the material identity it had.
C16_ExtractionIdempotent ==
  /\ px.stage \in {"once", "twice"} =>
       \A k \in 1..Len(px.before) : px.object[k].mat = px.before[k].mat
  /\ px.stage = "twice" => px.second = px.first

\* C17: a ply geometry with no index buffer or an empty one is built as a
\* Points node, a ply geometry with a non-empty index buffer as a Mesh node,
\* an xyz geometry always as a Points node.
C17_PointCloudClassification ==
  (px.stage = "built" /\ px.ext \in {Ply, Xyz}) =>
    /\ Len(px.object) = 1
    /\ (px.ext = Ply /\ px.nodes[1].index \in {-1, 0})
         => px.object[1].kind = "Points"
    /\ (px.ext = Ply /\ px.nodes[1].index > 0)
         => px.object[1].kind = "Mesh"
    /\ px.ext = Xyz => px.object[1].kind = "Points"

\* C17, witness: a ply geometry with an empty index buffer has been built as
\* a Points node.
C17_Witness ==
  /\ px.stage = "built"
  /\ px.ext = Ply
  /\ px.nodes[1].index = 0
  /\ px.object[1].kind = "Points"

\* A step in which the animation effect runs on the installed asset's clips:
\* the index changes, a mixer exists, the clip list stays.
IndexChanges ==
  /\ sceneSettings'.activeAnimationIndex # sceneSettings.activeAnimationIndex
  /\ mixer # None
  /\ Len(clips.names) > 0
  /\ clips' = clips
HasClip(index) == index + 1 \in 1..Len(clips.names)
FadingOver(a, dir) == a.fade = [dir |-> dir, over |-> FadeDuration]

\* C18, as claimed: a change to an index with no clip is a no-op: the mixer's
\* actions and the active action are what they were.
C18_NoClipNoOp ==
  [][(IndexChanges /\ ~HasClip(sceneSettings'.activeAnimationIndex))
       => (mixer' = mixer /\ activeAction' = activeAction)]_vars

\* C18, amended: a change to an index with no clip switches to the first
\* clip: the active action is faded out over 0.3, the first clip's action is
\* reset to time zero, faded in over 0.3, played and made the active action.
\* The change is a no-op only when there is no mixer or no clip at all.
C18_NoClipFallsBackToFirst ==
  [][/\ (IndexChanges /\ ~HasClip(sceneSettings'.activeAnimationIndex)) =>
          /\ activeAction' = Some([root |-> mixer[1].root, clip |-> 1])
          /\ mixer'[1].actions[1].running
          /\ mixer'[1].actions[1].time = 0
          /\ FadingOver(mixer'[1].actions[1], "in")
          /\ \A c \in DOMAIN mixer[1].actions :
               (activeAction # None /\ activeAction[1].clip = c /\ c # 1)
               => FadingOver(mixer'[1].actions[c], "out")
     /\ (/\ sceneSettings'.activeAnimationIndex
              # sceneSettings.activeAnimationIndex
         /\ clips' = clips
         /\ (mixer = None \/ Len(clips.names) = 0))
        => (mixer' = mixer /\ activeAction' = activeAction)
    ]_vars

\* C18, witness: the second clip was playing when an index with no clip was
\* given; it is faded out and the first clip is the active action.
C18_Witness ==
  /\ mixer # None
  /\ ~HasClip(sceneSettings.activeAnimationIndex)
  /\ activeAction = Some([root |-> model, clip |-> 1])
  /\ 2 \in DOMAIN mixer[1].actions
  /\ FadingOver(mixer[1].actions[2], "out")
  /\ FadingOver(mixer[1].actions[1], "in")

\* C19: a change to a valid index i fades the active action out over 0.3 and
\* resets the action of clip i to time zero, fades it in over 0.3, plays it
\* and makes it the active action; and after every step, when a mixer exists
\* and the index names a clip, the active action is the action of
\* clips[activeAnimationIndex].
C19_SwitchCrossFades ==
  [][/\ (IndexChanges /\ HasClip(sceneSettings'.activeAnimationIndex)) =>
          LET next == sceneSettings'.activeAnimationIndex + 1
          IN /\ activeAction' = Some([root |-> mixer[1].root, clip |-> next])
             /\ mixer'[1].actions[next].running
             /\ mixer'[1].actions[next].time = 0
             /\ FadingOver(mixer'[1].actions[next], "in")
             /\ \A c \in DOMAIN mixer[1].actions :
                  (activeAction # None /\ activeAction[1].clip = c /\ c # next)
                  => /\ FadingOver(mixer'[1].actions[c], "out")
                     /\ mixer'[1].actions[c].time = mixer[1].actions[c].time
                     /\ mixer'[1].actions[c].running
                          = mixer[1].actions[c].running
     /\ (/\ mixer' # None
         /\ sceneSettings'.activeAnimationIndex + 1 \in 1..Len(clips'.names))
        => activeAction' =
             Some([root |-> mixer'[1].root,
                   clip |-> sceneSettings'.activeAnimationIndex + 1])
    ]_vars

\* C19, witness: after three switches the second clip is the active action,
\* at time zero and fading in, and the first clip, which frames had
\* advanced, is fading out.
C19_Witness ==
  /\ changes = 3
  /\ sceneSettings.activeAnimationIndex = 1
  /\ activeAction = Some([root |-> model, clip |-> 2])
  /\ mixer[1].actions[2].time = 0
  /\ FadingOver(mixer[1].actions[2], "in")
  /\ mixer[1].actions[1].time = 1
  /\ FadingOver(mixer[1].actions[1], "out")

\* C20: the index is 0 after every step in which a load completes, and in
\* every state where the clip list is non-empty it is the index of a clip.
C20_IndexResetAndInRange ==
  [][/\ (\E i \in LoadIds :
            loads[i].phase # "done" /\ loads'[i].phase = "done")
          => sceneSettings'.activeAnimationIndex = 0
     /\ Len(clips'.names) > 0 =>
          sceneSettings'.activeAnimationIndex \in 0..(Len(clips'.names) - 1)
    ]_vars

\* C20, witness: the second track of the two-clip asset was selected, then
\* the one-clip asset was loaded; the index is 0 again.
C20_Witness ==
  /\ Len(loads) = 2
  /\ loads[1].file = GlbFile
  /\ loads[2].file = GltfFile
  /\ loads[2].phase = "done"
  /\ changes = 1
  /\ Len(clips.names) = 1
  /\ sceneSettings.activeAnimationIndex = 0
  /\ mixer[1].actions[1].fade.dir = "in"

\* ------------------------------------------------- properties, C21 to C30

\* C21: the decoders of a load are released exactly once, by the cleanup that
\* runs when the next load starts or the file is ejected: the only load whose
\* decoders are unreleased is the current request, every other load that made
\* decoders has had each of them disposed once, and nothing is disposed twice
\* (a load made decoders when its effect got past the null guard).
C21_DecodersReleasedOnce ==
  /\ cleanupOf \in {0, Latest}
  /\ cleanupOf # 0 => modelUrl = cleanupOf
  /\ \A i \in LoadIds :
       loads[i].disposals =
         (IF loads[i].phase # "noload" /\ i # cleanupOf THEN 1 ELSE 0)

\* C21, witness: the first load was superseded while pending and completed
\* afterwards, the second was ejected: both have been released once.
C21_Witness ==
  /\ Len(loads) = 2
  /\ loads[1].applied = "stale"
  /\ loads[1].disposals = 1
  /\ loads[2].disposals = 1
  /\ modelUrl = 0

\* C26: on a parser failure the string given to the status sink is exactly
\* the parser's error message, and the load fails.
C26_ParserMessageUnmodified ==
  [][\A i \in LoadIds :
       (loads[i].error = "none" /\ loads'[i].error = "parse") =>
         (loadingStatus' = ParseMessage /\ loads'[i].phase = "failed")]_vars

\* C29: draco and ktx2 are never both set in the export settings, no export
\* is started with both, and no download is named with '_draco_ktx2'.
C29_FlagsExclusive ==
  LET EndsWith(s, t) ==
        Len(s) >= Len(t) /\ SubSeq(s, Len(s) - Len(t) + 1, Len(s)) = t
  IN /\ ~(exportSettings.draco /\ exportSettings.ktx2)
     /\ \A j \in ExportIds : ~(exports[j].draco /\ exports[j].ktx2)
     /\ \A k \in 1..Len(downloads) :
          ~EndsWith(downloads[k], DracoSuffix \o Ktx2Suffix \o GlbExt)

\* C29, witness: with draco selected, an export has run to its download,
\* named with '_draco' alone.
C29_Witness ==
  /\ exportSettings.draco
  /\ \E j \in ExportIds : exports[j].draco /\ exports[j].encode = "done"
  /\ \E k \in 1..Len(downloads) :
       LET s == downloads[k]
           t == DracoSuffix \o GlbExt
       IN Len(s) >= Len(t) /\ SubSeq(s, Len(s) - Len(t) + 1, Len(s)) = t

\* C30: whenever appState is VIEWING a file is selected and an object is
\* installed, and while no file is selected the state is IDLE.
C30_ViewingHasModel ==
  /\ appState = "VIEWING" => (modelUrl # 0 /\ model # NoObject)
  /\ modelUrl = 0 => appState = "IDLE"

\* C22: the asset kind is the lowercased substring after the last "." of
\* the file name (the whole name when it holds no "."): a kind of the table
\* reaches its own parser, whatever the letter case, and every other reaches
\* the unsupported-format branch.
C22_DispatchOnExtension ==
  LET ParserOf(kind) ==
        CASE kind \in {Glb, Gltf} -> "GLTFLoader"
          [] kind = Obj -> "OBJLoader"
          [] kind = Ply -> "PLYLoader"
          [] kind = Pcd -> "PCDLoader"
          [] kind = Xyz -> "XYZLoader"
      KindOfName(name) ==
        LET dots == {i \in 1..Len(name) : name[i] = "."}
            from == IF dots = {} THEN 1
                    ELSE (CHOOSE i \in dots : \A k \in dots : k <= i) + 1
        IN [i \in 1..(Len(name) - from + 1) |-> LowerChar(name[from + i - 1])]
  IN pd.stage = "dispatched" =>
       pd.branch = (IF KindOfName(pd.name) \in SupportedExtension
                      THEN ParserOf(KindOfName(pd.name))
                      ELSE "unsupported")

\* C24: a skeleton overlay is attached to the scene if and only if
\* showSkeleton is set and the current object has a bone, and the attached
\* overlay is the one made for the current object.
C24_SkeletonOverlay ==
  LET OverlayAttached == skeletonHelper # None /\ skeletonHelper[1].attached
  IN /\ OverlayAttached <=>
          (sceneSettings.showSkeleton /\ HasBones(loads, model))
     /\ OverlayAttached => skeletonHelper[1].of = model

\* C25: every mesh material of the current object has its wireframe flag
\* equal to settings.wireframe, and every point material has size
\* settings.pointSize and size attenuation on.
C25_MaterialsFollowSettings ==
  model # NoObject =>
    \A k \in 1..Len(ObjectOf(loads, model)) :
      LET node == ObjectOf(loads, model)[k]
          mat == materialFlags[model][k]
      IN /\ (node.kind = "Mesh" /\ mat.has)
              => mat.wireframe = sceneSettings.wireframe
         /\ (node.kind = "Points" /\ mat.has)
              => (mat.size = sceneSettings.pointSize /\ mat.sizeAttenuation)

\* C25, witness: the point size was changed and the interchange asset with
\* a point set is installed: its point material, made by the parser with
\* size 1 and no attenuation, has the size of the setting and attenuation.
C25_Witness ==
  /\ model # NoObject
  /\ loads[model[2]].file = GltfFile
  /\ sceneSettings.pointSize = 20
  /\ materialFlags[model][3] = Flags(TRUE, FALSE, 20, TRUE)

\* C27: a load that succeeds arms one automatic framing; the automatic
\* framing, when it runs, frames the object that is installed then; and a
\* Frame View click with no object installed changes neither the camera nor
\* the orbit target.
C27_AutomaticFramingOnCurrent ==
  [][/\ \A i \in LoadIds :
          (loads[i].phase # "done" /\ loads'[i].phase = "done")
            => timers' = Append(timers, ObjId(i, 1))
     /\ (Len(framed') = Len(framed) + 1 /\ frameCalls' = frameCalls)
          => /\ timers' = Tail(timers)
             /\ framed'[Len(framed')] = Head(timers)
             /\ framed'[Len(framed')] = model
     /\ (frameCalls' # frameCalls /\ model = NoObject)
          => (camera' = camera /\ target' = target)]_vars

\* C28: after a framing the camera is at distance 1.2 * max(h, w) from the
\* centre of the framed object's box, where h = maxSize / (2 * tan(fov / 2))
\* (the tangent by its series) and w = h / aspect; near is distance / 1000,
\* far is distance * 1000 and the orbit target is the centre.
C28_FramingDistance ==
  [][Len(framed') = Len(framed) + 1 =>
       LET tan(x) ==
             LET cube == (((x * x) \div 10000) * x) \div 10000
                 fifth == (((cube * x) \div 10000) * x) \div 10000
                 seventh == (((fifth * x) \div 10000) * x) \div 10000
             IN x + cube \div 3 + (2 * fifth) \div 15 + (17 * seventh) \div 315
           box == Box(graph, loads, framed'[Len(framed')])
           h == (box.maxSize * 10000) \div (2 * tan((Pi * camera.fov) \div 360))
           w == (h * 100) \div (IF camera.aspect = 0 THEN 100 ELSE camera.aspect)
           distance == (12 * Max(h, w)) \div 10
           offset == camera'.position - box.center
       IN /\ (IF offset < 0 THEN 0 - offset ELSE offset) = distance
          /\ camera'.near = distance \div 1000
          /\ camera'.far = distance * 1000
          /\ target' = box.center]_vars

\* ------------------------------------------------- properties, C31 to C32

\* C31: no parse of a glb/gltf buffer is started with decoders the effect
\* cleanup has already disposed: when the buffer of load i arrives and
\* loader.parse is called with the decoders load i made, they have not been
\* disposed.
C31_NoParseWithReleasedDecoders ==
  [][\A i \in LoadIds :
       (loads[i].phase = "fetching" /\ loads'[i].phase = "parsing")
         => loads[i].disposals = 0]_vars

\* C32: when the delayed export fires, the object it clones is the one that
\* was installed when the export was confirmed, and it was built from the
\* file whose name the export was given.
C32_ExportNameMatchesAsset ==
  [][\A j \in ExportIds :
       (exports[j].timeout = "armed" /\ exports'[j].timeout = "fired")
         => /\ exports[j].current # NoObject
                 => exports'[j].source = exports[j].current
            /\ exports'[j].source # NoObject
                 => loads[exports'[j].source[2]].file.name = exports[j].fileName
    ]_vars

====
